---- MODULE Spec2Model ----
(***************************************************************************)
(* Open Scouts: the due-scout dispatcher, the stuck-execution reaper and   *)
(* the surrounding execution store, modelled from the SQL migration        *)
(* "SCOUT DISPATCHER - Scalable Cron Architecture" (src/unnamed/part_003). *)
(*                                                                         *)
(* Beside them: the row level security policies of the authentication     *)
(* migration (src/unnamed/part_001), the similarity search of the          *)
(* cookbook (src/COOKBOOK.md), and the step ceiling of the engine.         *)
(*                                                                         *)
(* Time is counted in seconds.  SQL values that may be NULL are modelled   *)
(* as sequences of length at most one: << >> is NULL, <<v>> is the value v.*)
(***************************************************************************)
EXTENDS Integers, Sequences, FiniteSets, TLC

VARIABLES
  now,               \* NOW(): the wall clock, in seconds
  vault,             \* names of the secrets present in vault.decrypted_secrets
  scouts,            \* table scouts: id -> row
  executions,        \* table scout_executions: a sequence of rows, id = index
  engine,            \* per execution: position of the worker running it
  http_queue,        \* pg_net requests posted and not yet answered, per scout
  http_failed,       \* scouts with a trigger request that failed
  ran,               \* pg_cron: the jobs that have run in the current minute
  job_run_details,   \* cron.job_run_details: end times of the rows that are
                     \* older than the clock's range (younger rows are never
                     \* old enough to be pruned and are left out)
  db,                \* the tables under row level security, with their owners
  stmt,              \* the last statement run on db: its session and the rows
                     \* it returned
  pool,              \* the similarity search: rows of scout_executions, in the
                     \* order in which they are stored
  rank_limit,        \* the similarity search: its limit
  ranked,            \* the similarity search: the results of the searches run
  step_count,        \* per execution the engine runs step by step: the number
                     \* of its rows in scout_execution_steps
  saved_summary,     \* per such execution: the result summary written to its
                     \* record, named by the number of steps it rests on
  cron_job,          \* cron.job: the scheduled jobs
  notice,            \* the NOTICEs raised by the runs of the scheduling block
  cb_in,             \* auth callback: the request and what its services answer
  cb_out,            \* auth callback: the calls it made and its response
  cr_in,             \* credits route: the session, the preferences row and
                     \* the answer of the Firecrawl API
  cr_out             \* credits route: the key it sent and its response

\* The state of the scheduler, and the state outside it
schedVars == <<now, vault, scouts, executions, engine, http_queue, http_failed,
               ran, job_run_details>>
rlsVars == <<db, stmt>>
rankVars == <<pool, rank_limit, ranked>>
engineVars == <<step_count, saved_summary>>
setupVars == <<cron_job, notice>>
callbackVars == <<cb_in, cb_out>>
creditVars == <<cr_in, cr_out>>
laterVars == <<setupVars, callbackVars, creditVars>>
outsideVars == <<rlsVars, rankVars, engineVars, laterVars>>

vars == <<schedVars, outsideVars>>

----------------------------------------------------------------------------
(* Bounds of the model *)

MaxMinutes == 10        \* the clock runs from 0 to MaxMinutes minutes
MaxExecs == 2           \* rows of scout_executions
MaxQueue == 2           \* pending trigger requests per scout
ExtraScouts == 1        \* scouts beyond the batch cap in the batch specification

(* Program constants *)

BatchCap == 20              \* LIMIT 20
TimeoutSeconds == 300       \* INTERVAL '5 minutes'
RetentionSeconds == 86400   \* INTERVAL '24 hours'
SecondsPerHour == 3600      \* EXTRACT(EPOCH ...) / 3600
SecondsPerMinute == 60      \* pg_cron schedules by the minute
HourlyHours == 1
Every3DaysHours == 72
WeeklyHours == 168
CleanupEveryMinutes == 5    \* '*/5 * * * *'

TimeoutMessage == "Execution timed out after 5 minutes"

----------------------------------------------------------------------------
(* SQL NULL and three-valued logic *)

NULL == << >>
Some(v) == <<v>>
IsNull(x) == x = NULL
Val(x) == x[1]

\* booleans of SQL: Some(TRUE), Some(FALSE), NULL
Not3(a) == IF IsNull(a) THEN NULL ELSE Some(~Val(a))
And3(a, b) ==
  IF a = Some(FALSE) \/ b = Some(FALSE) THEN Some(FALSE)
  ELSE IF IsNull(a) \/ IsNull(b) THEN NULL
  ELSE Some(TRUE)
Or3(a, b) ==
  IF a = Some(TRUE) \/ b = Some(TRUE) THEN Some(TRUE)
  ELSE IF IsNull(a) \/ IsNull(b) THEN NULL
  ELSE Some(FALSE)
\* IF cond THEN in PL/pgSQL: the branch is taken only when cond is TRUE
IfTaken(a) == a = Some(TRUE)

\* p IS NOT NULL AND p != '' for a text argument
TextPresent(p) == And3(Some(~IsNull(p)), IF IsNull(p) THEN NULL ELSE Some(Val(p) /= ""))

----------------------------------------------------------------------------
(* should_run_scout: is a scout due?                                       *)

\* jsonb values: an array of len elements, or a value that is no array
JsonArray(n) == [kind |-> "array", len |-> n]
JsonObject == [kind |-> "object", len |-> 0]

\* jsonb_array_length raises "cannot get array length of a non-array"
ArrayLengthRaises(p) == ~IsNull(p) /\ Val(p).kind /= "array"

\* The conjuncts of is_complete, in the order in which they are written.
CompleteConjuncts(p_frequency, p_title, p_goal, p_description, p_location, p_search_queries) ==
  << TextPresent(p_title),
     TextPresent(p_goal),
     TextPresent(p_description),
     Some(~IsNull(p_location)),
     Some(~IsNull(p_search_queries)),
     IF IsNull(p_search_queries) \/ ArrayLengthRaises(p_search_queries)
       THEN NULL ELSE Some(Val(p_search_queries).len > 0),
     Some(~IsNull(p_frequency)) >>

\* Position of the jsonb_array_length conjunct in CompleteConjuncts
ArrayLengthConjunct == 6

RECURSIVE AndAll(_, _)
AndAll(cs, i) == IF i > Len(cs) THEN Some(TRUE) ELSE And3(cs[i], AndAll(cs, i + 1))

\* hours_since_last_run >= h, with hours_since_last_run = seconds / 3600 (NUMERIC)
HoursAtLeastMutant(seconds, h) == seconds > h * SecondsPerHour
HoursAtLeast(seconds, h) == seconds >= h * SecondsPerHour

\* IF p_last_run_at IS NULL THEN RETURN TRUE: the value returned
NeverRunReturnsMutant == "FALSE"
NeverRunReturns == "TRUE"

\* Returns "TRUE", "FALSE", or "ERROR" when the call raises an exception.
\* t is the value of NOW().
should_run_scout(p_frequency, p_last_run_at, p_is_active, p_title, p_goal, p_description, p_location, p_search_queries, t) ==
  LET cs == CompleteConjuncts(p_frequency, p_title, p_goal, p_description,
                              p_location, p_search_queries)
      \* AND is evaluated left to right and stops at the first FALSE, so the
      \* array length is computed only when no earlier conjunct is FALSE
      raises == /\ ArrayLengthRaises(p_search_queries)
                /\ \A i \in 1..(ArrayLengthConjunct - 1) : cs[i] /= Some(FALSE)
      is_complete == AndAll(cs, 1)
      hours_since_last_run == t - Val(p_last_run_at)
  IN  IF raises THEN "ERROR"
      ELSE IF IfTaken(Or3(Not3(p_is_active), Not3(is_complete))) THEN "FALSE"
      ELSE IF IsNull(p_last_run_at) THEN NeverRunReturns
      ELSE CASE Val(p_frequency) = "hourly" ->
                  IF HoursAtLeast(hours_since_last_run, HourlyHours) THEN "TRUE" ELSE "FALSE"
             [] Val(p_frequency) = "every_3_days" ->
                  IF HoursAtLeast(hours_since_last_run, Every3DaysHours) THEN "TRUE" ELSE "FALSE"
             [] Val(p_frequency) = "weekly" ->
                  IF HoursAtLeast(hours_since_last_run, WeeklyHours) THEN "TRUE" ELSE "FALSE"
             [] OTHER -> "FALSE"

\* should_run_scout applied to a row of scouts, as in the dispatcher's SELECT
ShouldRunRow(row, t) ==
  should_run_scout(row.frequency, row.last_run_at, row.is_active, row.title,
                   row.goal, row.description, row.location, row.search_queries, t)

----------------------------------------------------------------------------
(* Tables *)

ScoutIds == DOMAIN scouts
ExecIds == DOMAIN executions

\* A row of scouts that is active, complete, and has never run
NewScout(frequency) ==
  [ frequency      |-> Some(frequency),
    last_run_at    |-> NULL,
    is_active      |-> Some(TRUE),
    title          |-> Some("t"),
    goal           |-> Some("g"),
    description    |-> Some("d"),
    location       |-> Some("loc"),
    search_queries |-> Some(JsonArray(1)) ]

\* The statuses of scout_executions that are final
Terminal == {"completed", "failed"}

RunningOf(s) == {i \in ExecIds : executions[i].scout_id = s /\ executions[i].status = "running"}

\* SELECT ... INTO supabase_url / anon_key; IF ... IS NULL THEN RETURN
SecretsConfiguredMutant == "project_url" \in vault
SecretsConfigured == "project_url" \in vault /\ "service_role_key" \in vault

\* The k-element subsets of S
RECURSIVE Choose(_, _)
Choose(S, k) ==
  IF k = 0 THEN {{}}
  ELSE IF Cardinality(S) < k THEN {}
  ELSE LET x == CHOOSE y \in S : TRUE
       IN  {T \cup {x} : T \in Choose(S \ {x}, k - 1)} \cup Choose(S \ {x}, k)

\* LIMIT n of a query without ORDER BY: any n of the rows, or all if fewer
LimitMutant(S, n) == {S}
Limit(S, n) ==
  IF Cardinality(S) <= n THEN {S}
  ELSE {S \ X : X \in Choose(S, Cardinality(S) - n)}

DueScouts(t) == {s \in ScoutIds : ShouldRunRow(scouts[s], t) = "TRUE"}
RaisingScouts(t) == {s \in ScoutIds : ShouldRunRow(scouts[s], t) = "ERROR"}

\* What the scan of the FOR loop's query can produce: the rows looped over, or
\* an exception of should_run_scout, which aborts the function and rolls back
\* the requests it posted.  A scan that has found its LIMIT rows stops, and so
\* may never reach a row that raises.
ScanOutcomes(t) ==
  {[raised |-> FALSE, rows |-> sel] :
      sel \in {x \in Limit(DueScouts(t), BatchCap) :
                  RaisingScouts(t) = {} \/ Cardinality(x) = BatchCap}}
  \cup (IF RaisingScouts(t) /= {} THEN {[raised |-> TRUE, rows |-> {}]} ELSE {})

\* net.http_post for each row of the loop: one more pending request per scout
PostTriggers(rows) ==
  http_queue' = [s \in ScoutIds |-> IF s \in rows THEN http_queue[s] + 1 ELSE http_queue[s]]

\* scouts_dispatched, which only feeds the NOTICE, is the number of rows looped over
dispatch_due_scouts ==
  IF ~SecretsConfigured
    THEN UNCHANGED http_queue
    ELSE \E out \in ScanOutcomes(now) :
           /\ \A s \in out.rows : http_queue[s] < MaxQueue
           /\ PostTriggers(out.rows)

\* cron.schedule('dispatch-scouts', '* * * * *', ...): once in a minute
CronDispatchMutant ==
  /\ "dispatch-scouts" \notin ran
  /\ dispatch_due_scouts
  /\ ran' = ran \cup {"dispatch-scouts"}
  /\ scouts' = [s \in ScoutIds |->
        IF s \in DueScouts(now) THEN [scouts[s] EXCEPT !.last_run_at = Some(now)] ELSE scouts[s]]
  /\ UNCHANGED <<outsideVars, now, vault, executions, engine, http_failed, job_run_details>>
CronDispatch ==
  /\ "dispatch-scouts" \notin ran
  /\ dispatch_due_scouts
  /\ ran' = ran \cup {"dispatch-scouts"}
  /\ UNCHANGED <<outsideVars, now, vault, scouts, executions, engine, http_failed, job_run_details>>

----------------------------------------------------------------------------
(* cleanup_scout_executions: the reaper *)

\* WHERE status = 'running' AND started_at < NOW() - INTERVAL '5 minutes'
IsStuckMutantInclusive(e, t) == e.status = "running" /\ e.started_at <= t - TimeoutSeconds
IsStuckMutantFlipped(e, t) == e.status = "running" /\ e.started_at > t - TimeoutSeconds
IsStuckMutantUnguarded(e, t) == e.started_at < t - TimeoutSeconds
IsStuck(e, t) == e.status = "running" /\ e.started_at < t - TimeoutSeconds

\* SET status = 'failed', completed_at = NOW(), error_message = '...'
ForceFailMutant(e, t) ==
  [e EXCEPT !.status = "failed", !.completed_at = Some(e.started_at + TimeoutSeconds),
            !.error_message = Some(TimeoutMessage)]
ForceFail(e, t) ==
  [e EXCEPT !.status = "failed", !.completed_at = Some(t),
            !.error_message = Some(TimeoutMessage)]

\* DELETE FROM cron.job_run_details WHERE end_time < NOW() - INTERVAL '24 hours'
Pruned(rows, t) == {end_time \in rows : ~(end_time < t - RetentionSeconds)}

cleanup_scout_executions ==
  /\ executions' = [i \in ExecIds |->
        IF IsStuck(executions[i], now) THEN ForceFail(executions[i], now) ELSE executions[i]]
  /\ job_run_details' = Pruned(job_run_details, now)

\* cron.schedule('cleanup-scouts', '*/5 * * * *', ...): once in every fifth minute
CronCleanupMutant ==
  /\ (now \div SecondsPerMinute) % CleanupEveryMinutes = 0
  /\ "cleanup-scouts" \notin ran
  /\ cleanup_scout_executions
  /\ ran' = ran \cup {"cleanup-scouts"}
  /\ scouts' = [s \in ScoutIds |->
        IF \E i \in ExecIds : executions[i].scout_id = s /\ IsStuck(executions[i], now)
          THEN [scouts[s] EXCEPT !.last_run_at = NULL] ELSE scouts[s]]
  /\ UNCHANGED <<outsideVars, now, vault, engine, http_queue, http_failed>>
CronCleanup ==
  /\ (now \div SecondsPerMinute) % CleanupEveryMinutes = 0
  /\ "cleanup-scouts" \notin ran
  /\ cleanup_scout_executions
  /\ ran' = ran \cup {"cleanup-scouts"}
  /\ UNCHANGED <<outsideVars, now, vault, scouts, engine, http_queue, http_failed>>

----------------------------------------------------------------------------
(* The worker behind /functions/v1/scout-cron and the engine it runs.  The *)
(* migration only posts to the worker; the worker's claim of a scout and   *)
(* the engine's final write follow the design's description of them: an    *)
(* atomic claim, and a transition guarded by the status.                   *)

TakeRequest(s) ==
  http_queue' = [http_queue EXCEPT ![s] = http_queue[s] - 1]

\* The store's claim: a new execution in running state, last_run_at stamped,
\* refused while the scout has a running execution
CanClaimMutant(s) == TRUE
CanClaim(s) == RunningOf(s) = {}

ClaimScout(s) ==
  /\ executions' = Append(executions,
        [scout_id |-> s, status |-> "running", started_at |-> now,
         completed_at |-> NULL, error_message |-> NULL])
  /\ engine' = Append(engine, "working")
  /\ scouts' = [scouts EXCEPT ![s].last_run_at = Some(now)]

\* A trigger request reaches the worker
DeliverTrigger(s) ==
  /\ http_queue[s] > 0
  /\ CanClaim(s) => Len(executions) < MaxExecs
  /\ TakeRequest(s)
  /\ IF CanClaim(s) THEN ClaimScout(s) ELSE UNCHANGED <<executions, engine, scouts>>
  /\ UNCHANGED <<outsideVars, now, vault, http_failed, ran, job_run_details>>

\* A trigger request is not delivered, or is rejected
FailTrigger(s) ==
  /\ http_queue[s] > 0
  /\ TakeRequest(s)
  /\ http_failed' = http_failed \cup {s}
  /\ UNCHANGED <<outsideVars, now, vault, scouts, executions, engine, ran, job_run_details>>

\* The engine's final write: a transition out of running only
Finish(e, status, message, t) ==
  IF e.status = "running"
    THEN [e EXCEPT !.status = status, !.completed_at = Some(t), !.error_message = message]
    ELSE e

EngineFinish(i, status, message) ==
  /\ engine[i] = "working"
  /\ executions' = [executions EXCEPT ![i] = Finish(executions[i], status, message, now)]
  /\ engine' = [engine EXCEPT ![i] = "done"]
  /\ UNCHANGED <<outsideVars, now, vault, scouts, http_queue, http_failed, ran, job_run_details>>

EngineComplete(i) == EngineFinish(i, "completed", NULL)
EngineFail(i) == EngineFinish(i, "failed", Some("engine error"))

\* Loop protection: the hard ceiling on the steps of one execution
StepCeiling == 3

\* The engine appends each step as a row of scout_execution_steps before the
\* next step begins, and takes no step at the ceiling
CanStepMutant(i) == step_count[i] <= StepCeiling
CanStep(i) == step_count[i] < StepCeiling

EngineStep(i) ==
  /\ engine[i] = "working"
  /\ CanStep(i)
  /\ step_count' = [step_count EXCEPT ![i] = step_count[i] + 1]
  /\ UNCHANGED <<schedVars, rlsVars, rankVars, laterVars, saved_summary>>

\* Reaching the ceiling without a decision to stop is a termination, not an
\* error: the engine ends the run with the summary gathered so far.  The
\* final write is the transition guarded by the status, summary included.
CeilingStatusMutant == "failed"
CeilingStatus == "completed"

EngineCeiling(i) ==
  /\ engine[i] = "working"
  /\ ~CanStep(i)
  /\ executions' = [executions EXCEPT ![i] = Finish(executions[i], CeilingStatus, NULL, now)]
  /\ saved_summary' = [saved_summary EXCEPT ![i] =
        IF executions[i].status = "running" THEN Some(step_count[i]) ELSE saved_summary[i]]
  /\ engine' = [engine EXCEPT ![i] = "ceiling"]
  /\ UNCHANGED <<now, vault, scouts, http_queue, http_failed, ran, job_run_details>>
  /\ UNCHANGED <<rlsVars, rankVars, laterVars, step_count>>

\* An engine that has crashed or hangs is one that stays "working" and never
\* takes its step.

----------------------------------------------------------------------------
(* The clock *)

\* The clock is observed at the minute of each cleanup run and at the minute
\* before it: from a cleanup minute it moves on four minutes, else one.
MinutesToNext(t) ==
  IF (t \div SecondsPerMinute) % CleanupEveryMinutes = 0 THEN CleanupEveryMinutes - 1 ELSE 1

Advance ==
  /\ now + MinutesToNext(now) * SecondsPerMinute <= MaxMinutes * SecondsPerMinute
  /\ now' = now + MinutesToNext(now) * SecondsPerMinute
  /\ ran' = {}
  /\ UNCHANGED <<outsideVars, vault, scouts, executions, engine, http_queue, http_failed,
                 job_run_details>>

----------------------------------------------------------------------------
(* Row level security on scouts, scout_executions, scout_execution_steps   *)
(* (src/unnamed/part_001).  db holds the three tables as functions from    *)
(* the ids of their rows; a statement is run by a session.                 *)

RlsUsers == {"u1", "u2"}
RlsScoutIds == {"sA", "sB"}
RlsExecIds == {"e1", "e2"}
RlsStepIds == {"p1"}

\* The columns besides the keys take the values 0..MaxContent
MaxContent == 1

\* Sessions: the service role, which bypasses row level security, a
\* signed-in user u with auth.uid() = u, and a visitor with auth.uid() NULL
ServiceRole == [role |-> "service_role", uid |-> NULL]
Anon == [role |-> "anon", uid |-> NULL]
Authenticated(u) == [role |-> "authenticated", uid |-> Some(u)]
Sessions == {ServiceRole, Anon} \cup {Authenticated(u) : u \in RlsUsers}
auth_uid(a) == a.uid
BypassesRls(a) == a.role = "service_role"

\* a = b in SQL
Eq3(a, b) == IF IsNull(a) \/ IsNull(b) THEN NULL ELSE Some(Val(a) = Val(b))

\* auth.uid() = user_id
ScoutOwnedByMutant(uid, row) == ~IsNull(uid)
ScoutOwnedBy(uid, row) == IfTaken(Eq3(uid, row.user_id))

\* EXISTS (SELECT 1 FROM scouts WHERE scouts.id = scout_executions.scout_id
\*         AND scouts.user_id = auth.uid())
ExecutionOwnedBy(uid, row) ==
  \E s \in DOMAIN db.scouts :
    s = row.scout_id /\ IfTaken(Eq3(db.scouts[s].user_id, uid))

\* EXISTS (SELECT 1 FROM scout_executions JOIN scouts ON scouts.id =
\*         scout_executions.scout_id WHERE scout_executions.id =
\*         scout_execution_steps.execution_id AND scouts.user_id = auth.uid())
StepOwnedBy(uid, row) ==
  \E e \in DOMAIN db.scout_executions, s \in DOMAIN db.scouts :
    /\ s = db.scout_executions[e].scout_id
    /\ e = row.execution_id
    /\ IfTaken(Eq3(db.scouts[s].user_id, uid))

\* The policies created: a command on a table without a policy is denied
Policies ==
  { <<"scouts", "SELECT">>, <<"scouts", "INSERT">>, <<"scouts", "UPDATE">>,
    <<"scouts", "DELETE">>,
    <<"scout_executions", "SELECT">>, <<"scout_executions", "INSERT">>,
    <<"scout_executions", "UPDATE">>,
    <<"scout_execution_steps", "SELECT">>, <<"scout_execution_steps", "INSERT">>,
    <<"scout_execution_steps", "UPDATE">> }

\* The expression of the policies of a table: each table's policies share it
PolicyHolds(table, uid, row) ==
  CASE table = "scouts" -> ScoutOwnedBy(uid, row)
    [] table = "scout_executions" -> ExecutionOwnedBy(uid, row)
    [] table = "scout_execution_steps" -> StepOwnedBy(uid, row)

\* Does row level security let session a apply the command to the row?  For
\* INSERT the row is the new row (WITH CHECK), for the others the stored one
\* (USING).
Permits(a, table, cmd, row) ==
  \/ BypassesRls(a)
  \/ <<table, cmd>> \in Policies /\ PolicyHolds(table, auth_uid(a), row)

\* An UPDATE policy without WITH CHECK applies its USING expression to the
\* new row as well
PermitsUpdate(a, table, old, new) ==
  Permits(a, table, "UPDATE", old) /\ Permits(a, table, "UPDATE", new)

Put(t, id, row) == [k \in DOMAIN t \cup {id} |-> IF k = id THEN row ELSE t[k]]
Drop(t, ids) == [k \in DOMAIN t \ ids |-> t[k]]

EmptyTable == [k \in {} |-> NULL]
EmptyDb == [scouts |-> EmptyTable, scout_executions |-> EmptyTable, scout_execution_steps |-> EmptyTable]
NoSession == [role |-> "none", uid |-> NULL]
NoStatement == [session |-> NoSession, table |-> "none", seen |-> {}]

\* A statement that returns no rows
Ran(a) == stmt' = [session |-> a, table |-> "none", seen |-> {}]

\* SELECT * FROM table
RlsSelect(a, table) ==
  /\ stmt' = [session |-> a, table |-> table,
              seen |-> {k \in DOMAIN db[table] : Permits(a, table, "SELECT", db[table][k])}]
  /\ UNCHANGED <<db, schedVars, rankVars, engineVars, laterVars>>

ScoutRows == [user_id : {NULL} \cup {Some(u) : u \in RlsUsers}, title : 0..MaxContent]
ExecutionRows == [scout_id : RlsScoutIds]
StepRows == [execution_id : RlsExecIds, content : 0..MaxContent]

\* The rows that go with a deleted row through ON DELETE CASCADE
ExecutionsOfScouts(ids) == {e \in DOMAIN db.scout_executions : db.scout_executions[e].scout_id \in ids}
StepsOfExecutions(ids) == {p \in DOMAIN db.scout_execution_steps : db.scout_execution_steps[p].execution_id \in ids}

InsertScout(a, id, row) ==
  /\ id \notin DOMAIN db.scouts
  /\ db' = IF Permits(a, "scouts", "INSERT", row)
             THEN [db EXCEPT !.scouts = Put(@, id, row)] ELSE db
  /\ Ran(a)
  /\ UNCHANGED <<schedVars, rankVars, engineVars, laterVars>>

UpdateScout(a, id, row) ==
  /\ id \in DOMAIN db.scouts
  /\ db' = IF PermitsUpdate(a, "scouts", db.scouts[id], row)
             THEN [db EXCEPT !.scouts = Put(@, id, row)] ELSE db
  /\ Ran(a)
  /\ UNCHANGED <<schedVars, rankVars, engineVars, laterVars>>

DeleteScout(a, id) ==
  /\ id \in DOMAIN db.scouts
  /\ db' = IF Permits(a, "scouts", "DELETE", db.scouts[id])
             THEN [scouts |-> Drop(db.scouts, {id}),
                   scout_executions |-> Drop(db.scout_executions, ExecutionsOfScouts({id})),
                   scout_execution_steps |->
                     Drop(db.scout_execution_steps, StepsOfExecutions(ExecutionsOfScouts({id})))]
             ELSE db
  /\ Ran(a)
  /\ UNCHANGED <<schedVars, rankVars, engineVars, laterVars>>

InsertExecution(a, id, row) ==
  /\ id \notin DOMAIN db.scout_executions
  /\ row.scout_id \in DOMAIN db.scouts
  /\ db' = IF Permits(a, "scout_executions", "INSERT", row)
             THEN [db EXCEPT !.scout_executions = Put(@, id, row)] ELSE db
  /\ Ran(a)
  /\ UNCHANGED <<schedVars, rankVars, engineVars, laterVars>>

UpdateExecution(a, id, row) ==
  /\ id \in DOMAIN db.scout_executions
  /\ row.scout_id \in DOMAIN db.scouts
  /\ db' = IF PermitsUpdate(a, "scout_executions", db.scout_executions[id], row)
             THEN [db EXCEPT !.scout_executions = Put(@, id, row)] ELSE db
  /\ Ran(a)
  /\ UNCHANGED <<schedVars, rankVars, engineVars, laterVars>>

DeleteExecution(a, id) ==
  /\ id \in DOMAIN db.scout_executions
  /\ db' = IF Permits(a, "scout_executions", "DELETE", db.scout_executions[id])
             THEN [db EXCEPT !.scout_executions = Drop(@, {id}),
                             !.scout_execution_steps = Drop(@, StepsOfExecutions({id}))]
             ELSE db
  /\ Ran(a)
  /\ UNCHANGED <<schedVars, rankVars, engineVars, laterVars>>

InsertStep(a, id, row) ==
  /\ id \notin DOMAIN db.scout_execution_steps
  /\ row.execution_id \in DOMAIN db.scout_executions
  /\ db' = IF Permits(a, "scout_execution_steps", "INSERT", row)
             THEN [db EXCEPT !.scout_execution_steps = Put(@, id, row)] ELSE db
  /\ Ran(a)
  /\ UNCHANGED <<schedVars, rankVars, engineVars, laterVars>>

UpdateStep(a, id, row) ==
  /\ id \in DOMAIN db.scout_execution_steps
  /\ row.execution_id \in DOMAIN db.scout_executions
  /\ db' = IF PermitsUpdate(a, "scout_execution_steps", db.scout_execution_steps[id], row)
             THEN [db EXCEPT !.scout_execution_steps = Put(@, id, row)] ELSE db
  /\ Ran(a)
  /\ UNCHANGED <<schedVars, rankVars, engineVars, laterVars>>

DeleteStep(a, id) ==
  /\ id \in DOMAIN db.scout_execution_steps
  /\ db' = IF Permits(a, "scout_execution_steps", "DELETE", db.scout_execution_steps[id])
             THEN [db EXCEPT !.scout_execution_steps = Drop(@, {id})] ELSE db
  /\ Ran(a)
  /\ UNCHANGED <<schedVars, rankVars, engineVars, laterVars>>

----------------------------------------------------------------------------
(* The similarity search of the cookbook (src/COOKBOOK.md, section 3):      *)
(*   SELECT id, summary_text, 1 - (summary_embedding <=> :embedding)        *)
(*   FROM scout_executions WHERE status = 'completed'                       *)
(*   ORDER BY summary_embedding <=> :embedding LIMIT :limit                 *)
(* A row of pool holds its status, completed_at, and distance: the value of *)
(* summary_embedding <=> :embedding in tenths, NULL for a NULL embedding.   *)

MaxPool == 3            \* rows of scout_executions in the search
MaxLimit == 3           \* the limit of a search is 1..MaxLimit

\* WHERE status = 'completed'
Matches(row) == row.status = "completed"

\* ORDER BY summary_embedding <=> :embedding: ascending, and NULL last.
\* Must row a come before row b?
SortsBeforeMutant(a, b) ==
  ~IsNull(a.distance) /\ (IsNull(b.distance) \/ Val(a.distance) > Val(b.distance))
SortsBefore(a, b) ==
  ~IsNull(a.distance) /\ (IsNull(b.distance) \/ Val(a.distance) < Val(b.distance))

\* The orders of the ids S
Orders(S) ==
  {f \in [1..Cardinality(S) -> S] : \A i, j \in 1..Cardinality(S) : i /= j => f[i] /= f[j]}

\* The orders in which the sort may leave the matching rows: rows with equal
\* keys come in any order
Sorted(rows) ==
  {f \in Orders({k \in DOMAIN rows : Matches(rows[k])}) :
     \A i, j \in DOMAIN f : i < j => ~SortsBefore(rows[f[j]], rows[f[i]])}

\* LIMIT :limit
FirstRows(f, limit) == SubSeq(f, 1, IF Len(f) < limit THEN Len(f) ELSE limit)

\* The ids of the rows search_similar_scouts may return, in their order
search_similar_scouts(rows, limit) == {FirstRows(f, limit) : f \in Sorted(rows)}

\* A search, and the same search run again on the same rows
Search(limit) ==
  /\ ranked = << >>
  /\ rank_limit' = limit
  /\ \E result \in search_similar_scouts(pool, limit) : ranked' = <<result>>
  /\ UNCHANGED <<pool, schedVars, rlsVars, engineVars, laterVars>>

SearchAgain ==
  /\ Len(ranked) = 1
  /\ \E result \in search_similar_scouts(pool, rank_limit) : ranked' = Append(ranked, result)
  /\ UNCHANGED <<pool, rank_limit, schedVars, rlsVars, engineVars, laterVars>>

\* No search has run
InitNoSearch ==
  /\ rank_limit = 0
  /\ ranked = << >>

\* The scheduling block has not run and no job is scheduled
NoSetup ==
  /\ cron_job = {}
  /\ notice = << >>

\* No request has reached the auth callback
NoCallback ==
  /\ cb_in = NULL
  /\ cb_out = NULL

\* No request has reached the credits route
NoCredits ==
  /\ cr_in = NULL
  /\ cr_out = NULL

InitLater ==
  /\ NoSetup
  /\ NoCallback
  /\ NoCredits

\* The tables outside the scheduler hold no rows, no statement has run, and
\* no engine is followed step by step
InitTables ==
  /\ db = EmptyDb
  /\ stmt = NoStatement
  /\ pool = << >>
  /\ InitNoSearch
  /\ step_count = << >>
  /\ saved_summary = << >>

InitOutside ==
  /\ InitTables
  /\ InitLater

----------------------------------------------------------------------------
(* The system: dispatcher, reaper, worker, engines *)

SecretNames == {"project_url", "service_role_key"}

\* A job run that the retention window has left behind at time 0
OldRun == 0 - (RetentionSeconds + SecondsPerMinute)

\* The rows the scouts table starts with
ScoutConfigs ==
  { NewScout("hourly"),
    [NewScout("hourly") EXCEPT !.last_run_at = Some((CleanupEveryMinutes - 1) * SecondsPerMinute - HourlyHours * SecondsPerHour)],
    [NewScout("weekly") EXCEPT !.is_active = Some(FALSE)],
    [NewScout("hourly") EXCEPT !.search_queries = Some(JsonObject)] }

InitSched(ids) ==
  /\ executions = << >>
  /\ engine = << >>
  /\ http_queue = [s \in ids |-> 0]
  /\ http_failed = {}
  /\ ran = {}

InitStore(ids) ==
  /\ InitSched(ids)
  /\ InitOutside

\* The rows of scouts in the system specification: s1 is new and due, s2 is
\* any of ScoutConfigs
SystemScouts == {"s1", "s2"}

Init ==
  /\ now = 0
  /\ InitStore(SystemScouts)
  /\ vault \in SUBSET SecretNames
  /\ scouts \in {[s \in SystemScouts |-> IF s = "s1" THEN NewScout("hourly") ELSE c] : c \in ScoutConfigs}
  /\ job_run_details = {OldRun}

Next ==
  \/ CronDispatch
  \/ CronCleanup
  \/ \E s \in ScoutIds : DeliverTrigger(s)
  \/ \E s \in ScoutIds : FailTrigger(s)
  \/ \E i \in ExecIds : EngineComplete(i)
  \/ \E i \in ExecIds : EngineFail(i)
  \/ Advance

Spec == Init /\ [][Next]_vars

----------------------------------------------------------------------------
(* The due predicate on its own: one scout whose row and the clock are     *)
(* drawn from the values around every branch of should_run_scout, and the  *)
(* dispatcher applying the predicate to it.                                *)

DueFrequencies == {NULL, Some("hourly"), Some("every_3_days"), Some("weekly"), Some("daily")}
DueTexts == {NULL, Some(""), Some("t")}
DueLocations == {NULL, Some("{}"), Some("loc")}
DueQueries == {NULL, Some(JsonArray(0)), Some(JsonArray(1)), Some(JsonObject)}
DueFlags == {NULL, Some(TRUE), Some(FALSE)}
DueLastRuns == {NULL, Some(0), Some(2 * SecondsPerHour)}

\* The clock: 30 minutes and 2 hours after a last run at 0, and one second
\* before, at, and one second after each threshold
DueNows ==
  {0, SecondsPerHour \div 2, 2 * SecondsPerHour}
  \cup {h * SecondsPerHour + d : h \in {HourlyHours, Every3DaysHours, WeeklyHours}, d \in {-1, 0, 1}}

InitDue ==
  /\ InitStore({"s1"})
  /\ now \in DueNows
  /\ vault = SecretNames
  /\ job_run_details = {}
  /\ scouts \in [{"s1"} ->
       [ frequency : DueFrequencies, last_run_at : DueLastRuns, is_active : DueFlags,
         title : DueTexts, goal : DueTexts \ {NULL}, description : DueTexts \ {NULL},
         location : DueLocations, search_queries : DueQueries ]]

NextDue == CronDispatch

SpecDue == InitDue /\ [][NextDue]_vars

----------------------------------------------------------------------------
(* One dispatcher run over a table with more due scouts than the batch cap *)

BatchScouts == 1..(BatchCap + ExtraScouts)

\* The first k scouts are due; of the others, the last one may hold search
\* queries that make should_run_scout raise
InitBatch ==
  /\ now = 0
  /\ InitStore(BatchScouts)
  /\ vault \in SUBSET SecretNames
  /\ job_run_details = {}
  /\ \E k \in 0..(BatchCap + ExtraScouts), bad \in BOOLEAN :
       scouts = [s \in BatchScouts |->
                   IF s <= k THEN NewScout("hourly")
                   ELSE IF bad /\ s = BatchCap + ExtraScouts
                     THEN [NewScout("hourly") EXCEPT !.search_queries = Some(JsonObject)]
                   ELSE [NewScout("hourly") EXCEPT !.is_active = Some(FALSE)]]

NextBatch == CronDispatch

SpecBatch == InitBatch /\ [][NextBatch]_vars

----------------------------------------------------------------------------
(* Successive dispatcher runs over the same table: the dispatcher and the  *)
(* clock alone, so that the scouts a run leaves out meet the next run      *)

\* One scout more than the batch cap
TickScouts == 1..(BatchCap + 1)

\* The first k scouts are due, the others are inactive
InitTicks ==
  /\ now = 0
  /\ InitStore(TickScouts)
  /\ vault \in {SecretNames, {"service_role_key"}}
  /\ job_run_details = {}
  /\ \E k \in 0..(BatchCap + 1) :
       scouts = [s \in TickScouts |->
                   IF s <= k THEN NewScout("hourly")
                   ELSE [NewScout("hourly") EXCEPT !.is_active = Some(FALSE)]]

NextTicks ==
  \/ CronDispatch
  \/ Advance

SpecTicks == InitTicks /\ [][NextTicks]_vars

----------------------------------------------------------------------------
(* Dispatcher runs without end over a table with more due scouts than the  *)
(* batch cap, and workers that record the runs they are triggered for.     *)
(* The minutes are those of one hour: the clock's value decides nothing    *)
(* for a scout that never ran, nor for one that ran within the hour.       *)

\* The next minute begins: the jobs may run again
NextMinute ==
  /\ ran' = {}
  /\ UNCHANGED <<outsideVars, now, vault, scouts, executions, engine, http_queue,
                 http_failed, job_run_details>>

\* The workers answer the pending trigger requests: each such scout's run is
\* recorded by stamping last_run_at
RecordRuns ==
  /\ \E s \in ScoutIds : http_queue[s] > 0
  /\ scouts' = [s \in ScoutIds |->
        IF http_queue[s] > 0 THEN [scouts[s] EXCEPT !.last_run_at = Some(now)] ELSE scouts[s]]
  /\ http_queue' = [s \in ScoutIds |-> 0]
  /\ UNCHANGED <<outsideVars, now, vault, executions, engine, http_failed, ran,
                 job_run_details>>

\* One scout more than the batch cap is due; a further row is inactive, or
\* holds search queries that make should_run_scout raise
StarveScouts == 1..(BatchCap + 2)

InitStarve ==
  /\ now = 0
  /\ InitStore(StarveScouts)
  /\ vault = SecretNames
  /\ job_run_details = {}
  /\ \E bad \in BOOLEAN :
       scouts = [s \in StarveScouts |->
                   IF s <= BatchCap + 1 THEN NewScout("hourly")
                   ELSE IF bad THEN [NewScout("hourly") EXCEPT !.search_queries = Some(JsonObject)]
                   ELSE [NewScout("hourly") EXCEPT !.is_active = Some(FALSE)]]

NextStarve ==
  \/ CronDispatch
  \/ NextMinute
  \/ RecordRuns

\* ENABLED CronDispatch written out: the job has not run in this minute and
\* some outcome of the scan can be posted
DispatchEnabled ==
  /\ "dispatch-scouts" \notin ran
  /\ \/ ~SecretsConfigured
     \/ \E out \in ScanOutcomes(now) : \A s \in out.rows : http_queue[s] < MaxQueue

\* pg_cron keeps running the job every minute (weak fairness of CronDispatch,
\* which always changes ran), and the workers keep answering
FairTicks ==
  /\ InitStarve /\ [][NextStarve]_vars
  /\ ([]<>(~DispatchEnabled) \/ []<><<CronDispatch>>_vars)
  /\ WF_vars(NextMinute) /\ WF_vars(RecordRuns)

----------------------------------------------------------------------------
(* The DO block that schedules the cron jobs *)

MaxRuns == 2

DispatchJob ==
  [jobname |-> "dispatch-scouts", schedule |-> "* * * * *",
   command |-> "SELECT dispatch_due_scouts()"]
CleanupJob ==
  [jobname |-> "cleanup-scouts", schedule |-> "*/5 * * * *",
   command |-> "SELECT cleanup_scout_executions()"]

\* cron.unschedule(name) removes the job of that name.  Where there is none it
\* raises, and the handler of the inner block swallows the exception: the
\* table is as it was.
Unschedule(jobs, name) == {j \in jobs : j.jobname /= name}

\* cron.schedule(name, schedule, command) adds the job, in place of a job of
\* the same name
Schedule(jobs, job) == {j \in jobs : j.jobname /= job.jobname} \cup {job}

\* EXCEPTION WHEN OTHERS of the outer block: what the block has changed up to
\* the exception is rolled back
RolledBackMutant(before, reached) == reached
RolledBack(before, reached) == before

\* One run of the block; failing names the cron.schedule call that raises
ScheduleBlock(failing) ==
  LET unscheduled == Unschedule(Unschedule(cron_job, "dispatch-scouts"), "cleanup-scouts")
      first == Schedule(unscheduled, DispatchJob)
  IN  /\ Len(notice) < MaxRuns
      /\ cron_job' = CASE failing = "none" -> Schedule(first, CleanupJob)
                        [] failing = "dispatch-scouts" -> RolledBack(cron_job, unscheduled)
                        [] failing = "cleanup-scouts" -> RolledBack(cron_job, first)
      /\ notice' = Append(notice, IF failing = "none"
                                    THEN "Cron jobs scheduled successfully"
                                    ELSE "Could not schedule cron jobs")
      /\ UNCHANGED <<schedVars, rlsVars, rankVars, engineVars, callbackVars, creditVars>>

\* Jobs the table may hold before the block first runs: the two jobs as
\* scheduled by any earlier run, also on another schedule, and the jobs of
\* the setup script
EarlierJobs ==
  {DispatchJob, [DispatchJob EXCEPT !.schedule = "*/5 * * * *"],
   CleanupJob, [CleanupJob EXCEPT !.schedule = "0 * * * *"],
   [jobname |-> "scout-cron-hourly", schedule |-> "0 * * * *", command |-> "SELECT net.http_post()"],
   [jobname |-> "scout-cron-5min", schedule |-> "*/5 * * * *", command |-> "SELECT net.http_post()"]}

\* cron.job holds one job of a name at most
UniqueNames(jobs) == \A j, k \in jobs : j.jobname = k.jobname => j = k

\* The scheduler, the tables and the searches at rest
InitIdle ==
  /\ now = 0
  /\ vault = {}
  /\ scouts = << >>
  /\ job_run_details = {}
  /\ InitSched({})
  /\ InitTables

InitSetup ==
  /\ InitIdle
  /\ NoCallback
  /\ NoCredits
  /\ cron_job \in {jobs \in SUBSET EarlierJobs : UniqueNames(jobs)}
  /\ notice = << >>

NextSetup ==
  \E failing \in {"none", "dispatch-scouts", "cleanup-scouts"} : ScheduleBlock(failing)

SpecSetup == InitSetup /\ [][NextSetup]_vars

----------------------------------------------------------------------------
(* The setup script: the cron section of runMigrations.  Each client.query  *)
(* is a transaction of its own, so nothing is rolled back.                  *)

\* NEXT_PUBLIC_SUPABASE_URL, where it is set
SupabaseUrls == {"https://a.supabase.co", "https://b.supabase.co"}

\* The job of the setup script; its command holds the URL of the environment
ScoutCronJob(supabaseUrl) ==
  [jobname |-> "scout-cron-5min", schedule |-> "*/5 * * * *",
   command |-> "SELECT net.http_post(url:='" \o supabaseUrl \o "/functions/v1/scout-cron')"]

\* The jobs the script removes first, each in a try whose catch is empty
RemovedFirstMutant == <<"scout-cron-5min">>
RemovedFirst == <<"scout-cron-hourly", "scout-cron-5min">>

\* cron.unschedule for each name of a sequence, in order
RECURSIVE UnscheduleAll(_, _)
UnscheduleAll(jobs, names) ==
  IF names = << >> THEN jobs
  ELSE UnscheduleAll(Unschedule(jobs, Head(names)), Tail(names))

\* One run of the script up to "Database setup complete": the extensions
\* found, the environment (supabaseUrl is NULL when either variable is
\* missing), and whether cron.schedule raises
RunMigrations(hasPgCron, hasPgNet, supabaseUrl, failing) ==
  /\ Len(notice) < MaxRuns
  /\ IF ~(hasPgCron /\ hasPgNet)
       THEN /\ notice' = Append(notice, "Scheduling extensions not enabled yet")
            /\ UNCHANGED cron_job
     ELSE IF IsNull(supabaseUrl)
       THEN /\ notice' = Append(notice, "Skipping cron setup")
            /\ UNCHANGED cron_job
     ELSE IF failing
       THEN /\ notice' = Append(notice, "Could not create cron job")
            /\ cron_job' = UnscheduleAll(cron_job, RemovedFirst)
     ELSE /\ notice' = Append(notice, "Cron job created")
          /\ cron_job' = Schedule(UnscheduleAll(cron_job, RemovedFirst),
                                   ScoutCronJob(Val(supabaseUrl)))
  /\ UNCHANGED <<schedVars, rlsVars, rankVars, engineVars, callbackVars, creditVars>>

\* The job table before the script first runs: as before the scheduling
\* block, and also with the script's job for either environment
InitMigrate ==
  /\ InitIdle
  /\ NoCallback
  /\ NoCredits
  /\ cron_job \in {jobs \in SUBSET (EarlierJobs \cup {ScoutCronJob(u) : u \in SupabaseUrls}) :
                     UniqueNames(jobs)}
  /\ notice = << >>

NextMigrate ==
  \E hasPgCron, hasPgNet, failing \in BOOLEAN, supabaseUrl \in {NULL} \cup {Some(u) : u \in SupabaseUrls} :
    RunMigrations(hasPgCron, hasPgNet, supabaseUrl, failing)

SpecMigrate == InitMigrate /\ [][NextMigrate]_vars

----------------------------------------------------------------------------
(* The auth callback: GET /auth/callback *)

\* A JavaScript value used as a condition: null, undefined and '' are falsy
Truthy(v) == ~IsNull(v) /\ Val(v) /= ""

\* searchParams.get(name) || fallback
OrElse(v, fallback) == IF Truthy(v) THEN Val(v) ELSE fallback

\* encodeURIComponent on the queries of the model
EncodeURIComponent(q) ==
  CASE q = "a b" -> "a%20b"
    [] q = "x&y=1" -> "x%26y%3D1"
    [] OTHER -> q

\* user?.id && user?.email
UserKnown(user) == ~IsNull(user) /\ Truthy(Val(user).id) /\ Truthy(Val(user).email)

\* hasActiveKey: a custom key, or a sponsored key whose status is 'active';
\* preferences is the data of the read, null when it found no row
HasActiveKeyMutant(preferences) ==
  /\ ~IsNull(preferences)
  /\ \/ Truthy(Val(preferences).firecrawl_custom_api_key)
     \/ Truthy(Val(preferences).firecrawl_api_key)
HasActiveKey(preferences) ==
  /\ ~IsNull(preferences)
  /\ \/ Truthy(Val(preferences).firecrawl_custom_api_key)
     \/ /\ Truthy(Val(preferences).firecrawl_api_key)
        /\ Val(preferences).firecrawl_key_status = Some("active")

\* The redirect when no session was established
ErrorTargetMutant == "/"
ErrorTarget == "/login?error=auth_callback_error"

\* The redirect after a successful exchange, without the origin
SuccessTargetMutant(redirectTo, pendingQuery) ==
  IF redirectTo /= "/" THEN redirectTo
  ELSE IF pendingQuery /= "" THEN "/?pendingQuery=" \o EncodeURIComponent(pendingQuery)
  ELSE redirectTo
SuccessTarget(redirectTo, pendingQuery) ==
  IF pendingQuery /= "" THEN "/?pendingQuery=" \o EncodeURIComponent(pendingQuery)
  ELSE redirectTo

\* The calls of the handler after the user is known, in their order
UserCalls(req) ==
  IF ~UserKnown(req.user) THEN << >>
  ELSE <<"user_preferences">>
       \o (IF req.posthog THEN <<"identify", "capture", "shutdown">> ELSE << >>)
       \o (IF ~HasActiveKey(req.preferences) THEN <<"createFirecrawlKeyForUser">> ELSE << >>)

\* The handler: the calls it makes, what it logs, and the path it redirects
\* to.  An exception of createFirecrawlKeyForUser is caught and logged.
AuthCallback(req) ==
  LET redirectTo == OrElse(req.redirectTo, "/")
      pendingQuery == OrElse(req.pendingQuery, "")
  IN  IF ~Truthy(req.code)
        THEN [calls |-> << >>, logged |-> << >>, redirect |-> ErrorTarget]
      ELSE IF req.exchange_error
        THEN [calls |-> <<"exchangeCodeForSession">>, logged |-> << >>, redirect |-> ErrorTarget]
      ELSE [calls |-> <<"exchangeCodeForSession", "getUser">> \o UserCalls(req),
            logged |-> IF UserKnown(req.user) /\ ~HasActiveKey(req.preferences) /\ req.create_throws
                         THEN <<"[Auth Callback] Failed to create Firecrawl key:">>
                         ELSE << >>,
            redirect |-> SuccessTarget(redirectTo, pendingQuery)]

\* A request reaches the handler and is answered
Callback ==
  /\ ~IsNull(cb_in)
  /\ IsNull(cb_out)
  /\ cb_out' = Some(AuthCallback(Val(cb_in)))
  /\ UNCHANGED <<schedVars, rlsVars, rankVars, engineVars, setupVars, creditVars, cb_in>>

\* The requests: the query parameters, and what the services answer
CallbackParams == {NULL, Some("")}
CallbackUsers ==
  {NULL} \cup {Some([id |-> i, email |-> e]) :
                 i \in {Some(""), Some("u1")}, e \in {NULL, Some(""), Some("u1@example.com")}}
CallbackPreferences ==
  {NULL} \cup {Some(p) : p \in
     [firecrawl_api_key : {NULL, Some(""), Some("fc-sponsored")},
      firecrawl_key_status : {NULL, Some("pending"), Some("active"), Some("invalid")},
      firecrawl_custom_api_key : {NULL, Some(""), Some("fc-custom")}]}
CallbackRequests ==
  [code : CallbackParams \cup {Some("c0de")},
   redirectTo : CallbackParams \cup {Some("/scouts")},
   pendingQuery : CallbackParams \cup {Some("a b"), Some("x&y=1")},
   exchange_error : BOOLEAN,
   user : CallbackUsers,
   preferences : CallbackPreferences,
   posthog : BOOLEAN,
   create_throws : BOOLEAN]

InitCallback ==
  /\ InitIdle
  /\ NoSetup
  /\ NoCredits
  /\ cb_in \in {Some(req) : req \in CallbackRequests}
  /\ cb_out = NULL

NextCallback == Callback

SpecCallback == InitCallback /\ [][NextCallback]_vars

----------------------------------------------------------------------------
(* The credits route: GET /api/firecrawl/credits *)

\* String.prototype.trim on the keys of the model
Trim(s) ==
  CASE s = "  " -> ""
    [] s = " fc-custom " -> "fc-custom"
    [] s = "fc-sponsored " -> "fc-sponsored"
    [] OTHER -> s

\* key?.trim(): undefined for a missing key
TrimKey(key) == IF IsNull(key) THEN NULL ELSE Some(Trim(Val(key)))

\* preferences?.field: undefined when the read returned no row
Field(preferences, f) == IF IsNull(preferences) THEN NULL ELSE Val(preferences)[f]

\* apiKey: the trimmed custom key if that is not empty, else the trimmed
\* sponsored key, else null
ApiKey(preferences) ==
  LET custom == TrimKey(Field(preferences, "firecrawl_custom_api_key"))
      sponsored == TrimKey(Field(preferences, "firecrawl_api_key"))
  IN  IF Truthy(custom) THEN custom
      ELSE IF Truthy(sponsored) THEN sponsored
      ELSE NULL

\* isCustomKey = !!preferences?.firecrawl_custom_api_key: the key as stored
IsCustomKey(preferences) == Truthy(Field(preferences, "firecrawl_custom_api_key"))

\* The handler: the key it sends to the Firecrawl API, if it sends one, the
\* HTTP status of its response and the body
CreditsRoute(req) ==
  LET preferences == req.preferences
      apiKey == ApiKey(preferences)
      stored == Field(preferences, "firecrawl_key_status")
  IN  IF req.thrown = "getUser"
        THEN [sent |-> NULL, http |-> 500, body |-> [error |-> "Internal server error"]]
      ELSE IF req.auth_error \/ IsNull(req.user)
        THEN [sent |-> NULL, http |-> 401, body |-> [error |-> "Unauthorized"]]
      ELSE IF req.pref_error \/ IsNull(apiKey)
        THEN [sent |-> NULL, http |-> 200,
              body |-> [success |-> TRUE, status |-> OrElse(stored, "pending")]]
      ELSE IF req.thrown = "fetch"
        THEN [sent |-> apiKey, http |-> 500, body |-> [error |-> "Internal server error"]]
      ELSE IF req.firecrawl \in {401, 403}
        THEN [sent |-> apiKey, http |-> 200,
              body |-> [success |-> TRUE, status |-> "invalid", error |-> "API key is invalid"]]
      ELSE IF req.firecrawl /= 200
        THEN [sent |-> apiKey, http |-> 500, body |-> [error |-> "Failed to fetch credits"]]
      ELSE [sent |-> apiKey, http |-> 200,
            body |-> [success |-> TRUE,
                      status |-> IF IsCustomKey(preferences) THEN Some("active") ELSE stored,
                      isCustomKey |-> IsCustomKey(preferences)]]

\* A request reaches the handler and is answered
Credits ==
  /\ ~IsNull(cr_in)
  /\ IsNull(cr_out)
  /\ cr_out' = Some(CreditsRoute(Val(cr_in)))
  /\ UNCHANGED <<schedVars, rlsVars, rankVars, engineVars, setupVars, callbackVars, cr_in>>

\* The requests: the session, the preferences row, the answer of the
\* Firecrawl API, and the call that throws, if one does
CreditsPreferences ==
  {NULL} \cup {Some(p) : p \in
     [firecrawl_api_key : {NULL, Some(""), Some("fc-sponsored"), Some("fc-sponsored ")},
      firecrawl_key_status : {NULL, Some("pending"), Some("active"), Some("invalid")},
      firecrawl_custom_api_key : {NULL, Some(""), Some("  "), Some("fc-custom"), Some(" fc-custom ")}]}
CreditsRequests ==
  [user : {NULL, Some("u1")},
   auth_error : BOOLEAN,
   preferences : CreditsPreferences,
   pref_error : BOOLEAN,
   firecrawl : {200, 401, 403, 500},
   thrown : {"none", "getUser", "fetch"}]

\* .single() returns an error exactly when it returns no row
InitCredits ==
  /\ InitIdle
  /\ NoSetup
  /\ NoCallback
  /\ cr_in \in {Some(req) : req \in {r \in CreditsRequests : r.pref_error <=> IsNull(r.preferences)}}
  /\ cr_out = NULL

NextCredits == Credits

SpecCredits == InitCredits /\ [][NextCredits]_vars

----------------------------------------------------------------------------
(* The tables under row level security and the statements of the sessions *)

InitRls ==
  /\ now = 0
  /\ InitStore({})
  /\ scouts = << >>
  /\ vault = {}
  /\ job_run_details = {}

NextRls ==
  \/ \E a \in Sessions, table \in DOMAIN EmptyDb : RlsSelect(a, table)
  \/ \E a \in Sessions, id \in RlsScoutIds, row \in ScoutRows : InsertScout(a, id, row)
  \/ \E a \in Sessions, id \in RlsScoutIds, row \in ScoutRows : UpdateScout(a, id, row)
  \/ \E a \in Sessions, id \in RlsScoutIds : DeleteScout(a, id)
  \/ \E a \in Sessions, id \in RlsExecIds, row \in ExecutionRows : InsertExecution(a, id, row)
  \/ \E a \in Sessions, id \in RlsExecIds, row \in ExecutionRows : UpdateExecution(a, id, row)
  \/ \E a \in Sessions, id \in RlsExecIds : DeleteExecution(a, id)
  \/ \E a \in Sessions, id \in RlsStepIds, row \in StepRows : InsertStep(a, id, row)
  \/ \E a \in Sessions, id \in RlsStepIds, row \in StepRows : UpdateStep(a, id, row)
  \/ \E a \in Sessions, id \in RlsStepIds : DeleteStep(a, id)

SpecRls == InitRls /\ [][NextRls]_vars

----------------------------------------------------------------------------
(* The similarity search over every small table of executions *)

\* The distances 0.1, 0.2 and 0.4, in tenths
Distances == {1, 2, 4}
CompletedAts == {1, 2}

\* The engine writes the summary embedding when it completes an execution:
\* a row that is not completed has none, a completed one may lack it
PoolRows ==
  [status : {"completed"}, distance : {NULL} \cup {Some(d) : d \in Distances},
   completed_at : {Some(t) : t \in CompletedAts}]
  \cup [status : {"pending", "running"}, distance : {NULL}, completed_at : {NULL}]
  \cup [status : {"failed"}, distance : {NULL}, completed_at : {Some(t) : t \in CompletedAts}]

InitRank ==
  /\ now = 0
  /\ vault = {}
  /\ scouts = << >>
  /\ job_run_details = {}
  /\ InitSched({})
  /\ db = EmptyDb
  /\ stmt = NoStatement
  /\ pool \in UNION {[1..n -> PoolRows] : n \in 0..MaxPool}
  /\ InitNoSearch
  /\ step_count = << >>
  /\ saved_summary = << >>
  /\ InitLater

NextRank ==
  \/ \E limit \in 1..MaxLimit : Search(limit)
  \/ SearchAgain

SpecRank == InitRank /\ [][NextRank]_vars

----------------------------------------------------------------------------
(* The system under the scheduling pg_cron gives: the clock moves on and   *)
(* the cleanup job runs in each of its minutes.  One scout is due and the  *)
(* other inactive, so that the executions are successive runs of one scout.*)

InitFair ==
  /\ now = 0
  /\ InitStore(SystemScouts)
  /\ vault = SecretNames
  /\ scouts = [s \in SystemScouts |->
                 IF s = "s1" THEN NewScout("hourly")
                 ELSE [NewScout("weekly") EXCEPT !.is_active = Some(FALSE)]]
  /\ job_run_details = {OldRun}

FairSpec == InitFair /\ [][Next]_vars /\ WF_vars(Advance) /\ WF_vars(CronCleanup)

----------------------------------------------------------------------------
(* The engines of two running executions followed step by step, with the   *)
(* reaper and the clock: the system specification leaves the steps out.    *)

InitEngine ==
  /\ now = 0
  /\ vault = SecretNames
  /\ scouts = [s \in SystemScouts |-> [NewScout("hourly") EXCEPT !.last_run_at = Some(0)]]
  /\ executions = <<[scout_id |-> "s1", status |-> "running", started_at |-> 0,
                      completed_at |-> NULL, error_message |-> NULL],
                    [scout_id |-> "s2", status |-> "running", started_at |-> 0,
                      completed_at |-> NULL, error_message |-> NULL]>>
  /\ engine = <<"working", "working">>
  /\ http_queue = [s \in SystemScouts |-> 0]
  /\ http_failed = {}
  /\ ran = {}
  /\ job_run_details = {}
  /\ db = EmptyDb
  /\ stmt = NoStatement
  /\ pool = << >>
  /\ InitNoSearch
  /\ step_count = <<0, 0>>
  /\ saved_summary = <<NULL, NULL>>
  /\ InitLater

NextEngine ==
  \/ \E i \in ExecIds : EngineStep(i)
  \/ \E i \in ExecIds : EngineCeiling(i)
  \/ \E i \in ExecIds : EngineComplete(i)
  \/ \E i \in ExecIds : EngineFail(i)
  \/ CronCleanup
  \/ Advance

SpecEngine == InitEngine /\ [][NextEngine]_vars

----------------------------------------------------------------------------
(* Properties *)

ExecsOf(s) == {i \in ExecIds : executions[i].scout_id = s}

\* A step in which the named cron job runs
JobRuns(job) == job \notin ran /\ job \in ran'

NoDoubleDispatch == \A s \in ScoutIds : http_queue[s] <= 1

\* C3: no single dispatch run posts more than the batch cap of 20 trigger
\* requests, and none twice for one scout, however many scouts are due.
DispatchWithinBatchCap ==
  [][ /\ Cardinality({s \in ScoutIds : http_queue'[s] > http_queue[s]}) <= 20
      /\ \A s \in ScoutIds : http_queue'[s] <= http_queue[s] + 1 ]_vars

\* The dispatcher has run with more than 20 scouts due and has posted exactly 20
DispatchWithinBatchCapWitness ==
  /\ "dispatch-scouts" \in ran
  /\ Cardinality(DueScouts(now)) > 20
  /\ Cardinality({s \in ScoutIds : http_queue[s] = 1}) = 20

\* C4: a cleanup run leaves every execution alone that started 5 minutes ago
\* or less, and fails every running execution that started more than 5
\* minutes ago.
ReaperRespectsTimeout ==
  [][ JobRuns("cleanup-scouts") =>
        \A i \in ExecIds :
          /\ now - executions[i].started_at <= 300 => executions'[i] = executions[i]
          /\ (executions[i].status = "running" /\ now - executions[i].started_at > 300)
               => executions'[i].status = "failed" ]_vars

\* The cleanup job has just run: it has failed an execution older than the
\* timeout and has left running one that started exactly 5 minutes before
ReaperRespectsTimeoutWitness ==
  /\ "cleanup-scouts" \in ran
  /\ \E i \in ExecIds : /\ executions[i].status = "running"
                        /\ executions[i].started_at = now - 300
  /\ \E i \in ExecIds : /\ executions[i].status = "failed"
                        /\ executions[i].completed_at = Some(now)
                        /\ executions[i].error_message = Some(TimeoutMessage)

\* C5: every execution a cleanup run changes ends that run failed, with the
\* timed-out message and completed_at equal to the time of the run.
ReaperStampsFailure ==
  [][ JobRuns("cleanup-scouts") =>
        \A i \in ExecIds :
          executions'[i] /= executions[i] =>
            /\ executions'[i].status = "failed"
            /\ executions'[i].error_message = Some("Execution timed out after 5 minutes")
            /\ executions'[i].completed_at = Some(now)
            /\ executions'[i].started_at = executions[i].started_at
            /\ executions'[i].scout_id = executions[i].scout_id ]_vars

\* An execution claimed at T was failed by the cleanup run at T + 6 minutes
ReaperStampsFailureWitness ==
  \E i \in ExecIds :
    /\ executions[i].status = "failed"
    /\ executions[i].error_message = Some("Execution timed out after 5 minutes")
    /\ executions[i].completed_at = Some(executions[i].started_at + 360)
    /\ engine[i] = "working"

\* The last minute of the clock in which the cleanup job runs
LastCleanup == (MaxMinutes \div CleanupEveryMinutes) * CleanupEveryMinutes * SecondsPerMinute

\* C6: every running execution whose engine never finishes is eventually
\* failed (for the executions started early enough that a cleanup run later
\* than their timeout lies within the range of the clock).
RunningInRange(i) ==
  /\ i \in ExecIds
  /\ executions[i].status = "running"
  /\ executions[i].started_at + 300 < LastCleanup

FailedOrFinished(i) ==
  /\ i \in ExecIds
  /\ executions[i].status = "failed" \/ engine[i] = "done"

StuckEventuallyFailed ==
  \A i \in 1..MaxExecs : RunningInRange(i) ~> FailedOrFinished(i)

\* An execution was failed by the reaper while its engine never finished
StuckEventuallyFailedWitness ==
  \E i \in ExecIds :
    /\ executions[i].status = "failed"
    /\ engine[i] = "working"
    /\ now = LastCleanup

\* C7: a failed hand-off ends with an execution of that scout in a terminal
\* state with an error.
FailedHandoffRecorded ==
  \A s \in http_failed :
    \E i \in ExecsOf(s) :
      executions[i].status \in Terminal /\ ~IsNull(executions[i].error_message)

\* C8: the status of an execution changes only from running to completed or
\* failed; a completed or failed execution never changes status again, and
\* rows are never removed.
TerminalIsFinal ==
  [][ \A i \in ExecIds :
        /\ i \in DOMAIN executions'
        /\ executions'[i].status /= executions[i].status =>
             executions[i].status = "running" /\ executions'[i].status \in Terminal ]_vars

\* Both orders of the race: an execution the reaper failed whose engine then
\* tried to finish, and one the engine completed that a later cleanup run
\* found older than the timeout
TerminalIsFinalWitness ==
  /\ \E i \in ExecIds : /\ executions[i].error_message = Some(TimeoutMessage)
                        /\ executions[i].status = "failed"
                        /\ engine[i] = "done"
  /\ \E i \in ExecIds : /\ executions[i].status = "completed"
                        /\ executions[i].started_at < now - 300
                        /\ "cleanup-scouts" \in ran

\* The eligibility invariant of a scout: every required field non-empty and at
\* least one search query
Eligible(row) ==
  /\ \A f \in {"title", "goal", "description"} : ~IsNull(row[f]) /\ Val(row[f]) /= ""
  /\ ~IsNull(row.location) /\ Val(row.location) /= "{}"
  /\ ~IsNull(row.frequency)
  /\ ~IsNull(row.search_queries)
  /\ Val(row.search_queries).kind = "array" /\ Val(row.search_queries).len >= 1

KnownFrequency(row) ==
  ~IsNull(row.frequency) /\ Val(row.frequency) \in {"hourly", "every_3_days", "weekly"}

\* A dispatcher run at the current instant has handled scout s
Dispatched(s) == http_queue[s] > 0

\* C9: an active, eligible scout with a null last_run_at is due, for each of
\* the three frequencies and every value of now, and a dispatcher run
\* dispatches it.
NeverRunIsDue ==
  \A s \in ScoutIds :
    ( /\ scouts[s].is_active = Some(TRUE)
      /\ Eligible(scouts[s])
      /\ KnownFrequency(scouts[s])
      /\ IsNull(scouts[s].last_run_at) )
    => /\ ShouldRunRow(scouts[s], now) = "TRUE"
       /\ "dispatch-scouts" \in ran => Dispatched(s)

\* A weekly scout that never ran has been dispatched at a clock value past 0
NeverRunIsDueWitness ==
  \E s \in ScoutIds :
    /\ scouts[s].is_active = Some(TRUE) /\ Eligible(scouts[s])
    /\ scouts[s].frequency = Some("weekly")
    /\ IsNull(scouts[s].last_run_at)
    /\ now > 0
    /\ Dispatched(s)

\* The threshold of a frequency, in seconds
ThresholdSeconds(frequency) ==
  CASE frequency = "hourly" -> 1 * 60 * 60
    [] frequency = "every_3_days" -> 72 * 60 * 60
    [] frequency = "weekly" -> 168 * 60 * 60

\* C10: an active, eligible scout with a non-null last_run_at is due exactly
\* when now - last_run_at is at least the threshold of its frequency, and a
\* dispatcher run dispatches it exactly then.
DueIffThresholdElapsed ==
  \A s \in ScoutIds :
    ( /\ scouts[s].is_active = Some(TRUE)
      /\ Eligible(scouts[s])
      /\ KnownFrequency(scouts[s])
      /\ ~IsNull(scouts[s].last_run_at) )
    => LET elapsed == now - Val(scouts[s].last_run_at)
           due == elapsed >= ThresholdSeconds(Val(scouts[s].frequency))
       IN  /\ ShouldRunRow(scouts[s], now) = (IF due THEN "TRUE" ELSE "FALSE")
           /\ "dispatch-scouts" \in ran => (Dispatched(s) <=> due)

\* The dispatcher has run over an hourly scout whose last run was exactly one
\* hour before, and has dispatched it
DueIffThresholdElapsedWitness ==
  \E s \in ScoutIds :
    /\ scouts[s].is_active = Some(TRUE) /\ Eligible(scouts[s])
    /\ scouts[s].frequency = Some("hourly")
    /\ scouts[s].last_run_at = Some(now - 3600)
    /\ "dispatch-scouts" \in ran
    /\ Dispatched(s)

\* C11: the due predicate returns false, whatever last_run_at and now are,
\* for every scout that is inactive or fails eligibility (a required field
\* empty, or no search query).
IneligibleIsNotDue ==
  \A s \in ScoutIds :
    (scouts[s].is_active = Some(FALSE) \/ ~Eligible(scouts[s]))
      => ShouldRunRow(scouts[s], now) = "FALSE"

\* C13: a dispatcher run leaves unchanged every scout it did not select, and
\* a scout that was due and was not selected (it fell beyond the batch cap)
\* is still due afterwards, at the next run.
DispatchLeavesUnselected ==
  [][ \A s \in ScoutIds :
        http_queue'[s] = http_queue[s] =>
          /\ scouts'[s] = scouts[s]
          /\ ShouldRunRow(scouts[s], now) = "TRUE" => ShouldRunRow(scouts'[s], now') = "TRUE" ]_vars

\* More scouts are due than the batch cap, a later dispatcher run has taken
\* place, and every scout has been dispatched: the scout the first run left
\* out was selected by a later one
DispatchLeavesUnselectedWitness ==
  /\ now > 0
  /\ "dispatch-scouts" \in ran
  /\ Cardinality(DueScouts(now)) > 20
  /\ \A s \in ScoutIds : http_queue[s] >= 1
  /\ \E s \in ScoutIds : http_queue[s] = 1

\* C14: a cleanup run never retries a timed-out run: it creates no execution,
\* posts no trigger request and changes no row of scouts (last_run_at and
\* is_active stay as they are), so it makes no scout due; a trigger request
\* for a scout is posted only by a dispatcher run that finds the scout due.
ReaperNeverRetries ==
  [][ /\ JobRuns("cleanup-scouts") =>
           /\ Len(executions') = Len(executions)
           /\ http_queue' = http_queue
           /\ engine' = engine
           /\ scouts' = scouts
           /\ \A s \in ScoutIds :
                \/ scouts'[s] = scouts[s] /\ now' = now
                \/ ShouldRunRow(scouts'[s], now') = ShouldRunRow(scouts[s], now)
      /\ http_queue' /= http_queue =>
           \A s \in ScoutIds :
             http_queue'[s] > http_queue[s] =>
               JobRuns("dispatch-scouts") /\ ShouldRunRow(scouts[s], now) = "TRUE" ]_vars

\* A cleanup run has just failed the only execution of a scout: the scout's
\* last_run_at is still the start of that execution, the scout is not due,
\* and no trigger request is pending for it
ReaperNeverRetriesWitness ==
  \E s \in ScoutIds :
    /\ "cleanup-scouts" \in ran
    /\ Cardinality(ExecsOf(s)) = 1
    /\ \A i \in ExecsOf(s) :
         /\ executions[i].status = "failed"
         /\ executions[i].completed_at = Some(now)
         /\ executions[i].error_message = Some(TimeoutMessage)
         /\ scouts[s].last_run_at = Some(executions[i].started_at)
    /\ scouts[s].is_active = Some(TRUE)
    /\ ShouldRunRow(scouts[s], now) = "FALSE"
    /\ http_queue[s] = 0

\* The session of the step's statement is that of an ordinary user
ByOrdinaryUser == stmt'.session.role \in {"anon", "authenticated"}

\* C15: an execution step is append-only: no statement of an ordinary user
\* changes a stored step, and a step is removed only together with its
\* execution, never by a delete of its own.
StepsAppendOnly ==
  [][ ByOrdinaryUser =>
        \A p \in DOMAIN db.scout_execution_steps :
          IF p \in DOMAIN db'.scout_execution_steps
            THEN db'.scout_execution_steps[p] = db.scout_execution_steps[p]
            ELSE db.scout_execution_steps[p].execution_id \notin DOMAIN db'.scout_executions ]_vars

\* The scout s is stored with user_id equal to the auth.uid() of the step's
\* statement
OwnsScout(s) ==
  /\ s \in DOMAIN db.scouts
  /\ ~IsNull(stmt'.session.uid)
  /\ db.scouts[s].user_id = stmt'.session.uid

\* The row with key k of the table is stored after the step and was not before
RowCreated(table, k) == k \notin DOMAIN db[table] /\ k \in DOMAIN db'[table]
\* The stored row with key k is changed by the step
RowUpdated(table, k) ==
  k \in DOMAIN db[table] /\ k \in DOMAIN db'[table] /\ db'[table][k] /= db[table][k]
RowDeleted(table, k) == k \in DOMAIN db[table] /\ k \notin DOMAIN db'[table]
\* The step's statement returns the row with key k of the table
RowRead(table, k) == stmt'.table = table /\ k \in stmt'.seen

\* C16: a statement of a user who is not the service role reads, creates,
\* updates or deletes a row of scouts only if the row's user_id is the
\* user's auth.uid(), and reads, creates or updates an execution or an
\* execution step only if the scout it belongs to is owned by the user.
OwnerOnlyAccess ==
  [][ ByOrdinaryUser =>
        /\ \A s \in RlsScoutIds :
             /\ RowCreated("scouts", s) =>
                  ~IsNull(stmt'.session.uid) /\ db'.scouts[s].user_id = stmt'.session.uid
             /\ (RowUpdated("scouts", s) \/ RowDeleted("scouts", s) \/ RowRead("scouts", s))
                  => OwnsScout(s)
        /\ \A e \in RlsExecIds :
             /\ RowCreated("scout_executions", e) => OwnsScout(db'.scout_executions[e].scout_id)
             /\ (RowUpdated("scout_executions", e) \/ RowRead("scout_executions", e))
                  => OwnsScout(db.scout_executions[e].scout_id)
        /\ \A p \in RlsStepIds :
             /\ RowCreated("scout_execution_steps", p) =>
                  OwnsScout(db.scout_executions[db'.scout_execution_steps[p].execution_id].scout_id)
             /\ (RowUpdated("scout_execution_steps", p) \/ RowRead("scout_execution_steps", p))
                  => OwnsScout(db.scout_executions[db.scout_execution_steps[p].execution_id].scout_id)
    ]_vars

\* Two users own one scout each, each scout has an execution, and the step
\* belongs to the other user's execution: a SELECT of the executions by u1 has
\* returned the execution of u1's scout alone
OwnerOnlyAccessWitness ==
  /\ stmt.session = Authenticated("u1")
  /\ stmt.table = "scout_executions"
  /\ DOMAIN db.scout_executions = RlsExecIds
  /\ DOMAIN db.scout_execution_steps /= {}
  /\ \E e \in RlsExecIds :
       /\ stmt.seen = {e}
       /\ db.scouts[db.scout_executions[e].scout_id].user_id = Some("u1")
       /\ \A f \in RlsExecIds \ {e} :
            db.scouts[db.scout_executions[f].scout_id].user_id = Some("u2")
       /\ \A p \in DOMAIN db.scout_execution_steps :
            db.scout_execution_steps[p].execution_id /= e

\* The rows a search may rank: completed, with a summary embedding
Candidate(row) == row.status = "completed" /\ ~IsNull(row.distance)

\* The ids in a result
Returned(result) == {result[i] : i \in DOMAIN result}

\* C17: a search returns at most K rows; the candidates it returns come in
\* ascending cosine distance whatever the order in which the rows are stored,
\* and no candidate left out has a smaller distance than one returned.
RankedAscending ==
  \A n \in DOMAIN ranked :
    /\ Len(ranked[n]) <= rank_limit
    /\ \A i, j \in DOMAIN ranked[n] :
         (i < j /\ Candidate(pool[ranked[n][i]]) /\ Candidate(pool[ranked[n][j]]))
           => Val(pool[ranked[n][i]].distance) <= Val(pool[ranked[n][j]].distance)
    /\ \A k \in DOMAIN pool \ Returned(ranked[n]), r \in Returned(ranked[n]) :
         (Candidate(pool[k]) /\ Candidate(pool[r]))
           => Val(pool[k].distance) >= Val(pool[r].distance)
    /\ \A k \in DOMAIN pool \ Returned(ranked[n]) :
         Candidate(pool[k]) => Len(ranked[n]) = rank_limit

\* The rows are stored with distances 0.1, 0.4, 0.2 in this order, and a
\* search with limit 2 has returned the rows of 0.1 and 0.2, in this order
RankedAscendingWitness ==
  /\ Len(pool) = 3
  /\ \A k \in DOMAIN pool : pool[k].status = "completed"
  /\ <<pool[1].distance, pool[2].distance, pool[3].distance>> = <<Some(1), Some(4), Some(2)>>
  /\ rank_limit = 2
  /\ Len(ranked) = 1
  /\ ranked[1] = <<1, 3>>

\* C18: every row a search returns is a completed execution with a summary
\* embedding; a row that is pending, running or failed, or completed without
\* an embedding, is never returned, even when fewer than K rows qualify.
OnlyCandidatesReturned ==
  \A n \in DOMAIN ranked : \A k \in Returned(ranked[n]) :
    pool[k].status = "completed" /\ ~IsNull(pool[k].distance)

\* C19: of two returned rows with equal distance the one with the more recent
\* completed_at comes first, and the same search run again on the same rows
\* returns the same order.
TiesByRecency ==
  /\ \A n \in DOMAIN ranked : \A i, j \in DOMAIN ranked[n] :
       ( /\ i < j
         /\ Candidate(pool[ranked[n][i]]) /\ Candidate(pool[ranked[n][j]])
         /\ pool[ranked[n][i]].distance = pool[ranked[n][j]].distance )
       => Val(pool[ranked[n][i]].completed_at) >= Val(pool[ranked[n][j]].completed_at)
  /\ \A n, m \in DOMAIN ranked : ranked[n] = ranked[m]

\* C20: for every execution, in every reachable state, the number of its
\* execution steps is at most the step ceiling.
StepsWithinCeiling ==
  \A i \in DOMAIN step_count : step_count[i] <= StepCeiling

\* One engine stands at the ceiling and is still working, while the reaper
\* has failed the other execution and its engine has gone on to the ceiling
StepsWithinCeilingWitness ==
  /\ step_count = <<StepCeiling, StepCeiling>>
  /\ engine = <<"working", "working">>
  /\ \E i \in ExecIds : executions[i].error_message = Some(TimeoutMessage)

DueNow(s) == s \in ScoutIds /\ ShouldRunRow(scouts[s], now) = "TRUE"

\* C22: with more due scouts than the batch cap, every scout that stays due
\* is eventually selected by some dispatcher run, given that the dispatcher
\* keeps running and the workers record each run they are triggered for.
DueEventuallySelected ==
  \A s \in StarveScouts : DueNow(s) ~> (~DueNow(s) \/ http_queue[s] > 0)

\* The jobs of the given name in a job table
JobsNamed(jobs, name) == {j \in jobs : j.jobname = name}

\* The last NOTICE of a log of notices, or none
LastNotice(log) == IF log = << >> THEN "none" ELSE log[Len(log)]

\* C23: after a run of the scheduling block that succeeds, exactly one job
\* named dispatch-scouts exists, on the schedule of every minute, and exactly
\* one named cleanup-scouts, on the schedule of every 5 minutes, whatever
\* jobs of those names existed before; a run after a successful run leaves
\* the job set as it is; and a run in which scheduling either job fails
\* leaves the job table as it was, so that it schedules neither job alone.
SchedulingBlockAtomic ==
  [][ notice' /= notice =>
        /\ LastNotice(notice') = "Cron jobs scheduled successfully" =>
             /\ \E j \in cron_job' : JobsNamed(cron_job', "dispatch-scouts") = {j}
                                      /\ j.schedule = "* * * * *"
             /\ \E j \in cron_job' : JobsNamed(cron_job', "cleanup-scouts") = {j}
                                      /\ j.schedule = "*/5 * * * *"
             /\ LastNotice(notice) = "Cron jobs scheduled successfully" => cron_job' = cron_job
        /\ LastNotice(notice') = "Could not schedule cron jobs" => cron_job' = cron_job
    ]_vars

\* A run of the block has succeeded and in a second run scheduling has failed,
\* with both jobs still in place beside a job of the setup script
SchedulingBlockAtomicWitness ==
  /\ notice = <<"Cron jobs scheduled successfully", "Could not schedule cron jobs">>
  /\ DispatchJob \in cron_job
  /\ CleanupJob \in cron_job
  /\ \E j \in cron_job : j.jobname = "scout-cron-5min"

\* C24: a dispatcher run that finds either vault secret missing posts no
\* trigger request and changes no table, however many scouts are due.
MissingSecretDispatchesNothing ==
  [][ ("dispatch-scouts" \in ran' \ ran /\ SecretNames \ vault /= {}) =>
         UNCHANGED <<http_queue, http_failed, scouts, executions, engine, vault,
                     job_run_details, now>>
    ]_vars

\* The dispatcher has run without a secret over more due scouts than the
\* batch cap and has posted nothing
MissingSecretDispatchesNothingWitness ==
  /\ "dispatch-scouts" \in ran
  /\ vault = {"project_url"}
  /\ Cardinality(DueScouts(now)) > BatchCap
  /\ \A s \in ScoutIds : http_queue[s] = 0

\* C25: the due predicate returns true only for a scout whose is_active is
\* true: a scout whose is_active is false or NULL is never due, however long
\* ago it last ran.
DueOnlyWhenActive ==
  \A s \in ScoutIds :
    ShouldRunRow(scouts[s], now) = "TRUE" => scouts[s].is_active = Some(TRUE)

\* C26: for a scout whose frequency is none of hourly, every_3_days and
\* weekly and whose last_run_at is not NULL, the due predicate returns false:
\* never true and never without a result, however long ago the last run was.
UnknownFrequencyIsNotDue ==
  \A s \in ScoutIds :
    (~KnownFrequency(scouts[s]) /\ ~IsNull(scouts[s].last_run_at))
      => ShouldRunRow(scouts[s], now) = "FALSE"

\* The request the auth callback has answered, and its answer
CallbackDone == ~IsNull(cb_out)
CallbackReq == Val(cb_in)
CallbackAns == Val(cb_out)

\* A value that is present and not the empty string
Given(v) == v /= NULL /\ v /= Some("")

\* The number of times the handler called the named service
CallCount(name) == Cardinality({i \in DOMAIN CallbackAns.calls : CallbackAns.calls[i] = name})

\* The exchange of the code for a session took place and returned no error
ExchangeSucceeded == Given(CallbackReq.code) /\ ~CallbackReq.exchange_error

\* C27: when the request has no code parameter, or the exchange of the code
\* for a session returns an error, the auth callback redirects to
\* /login?error=auth_callback_error and performs no user lookup, no read of
\* the preferences and no creation of a Firecrawl key.
CallbackFailureRedirects ==
  (CallbackDone /\ (~Given(CallbackReq.code) \/ CallbackReq.exchange_error)) =>
    /\ CallbackAns.redirect = "/login?error=auth_callback_error"
    /\ CallCount("getUser") = 0
    /\ CallCount("user_preferences") = 0
    /\ CallCount("createFirecrawlKeyForUser") = 0

\* The exchange has returned an error for a user who would otherwise get a
\* key, and the callback has redirected to the login page
CallbackFailureRedirectsWitness ==
  /\ CallbackDone
  /\ CallbackReq.code = Some("c0de")
  /\ CallbackReq.exchange_error
  /\ CallbackReq.user = Some([id |-> Some("u1"), email |-> Some("u1@example.com")])
  /\ CallbackReq.preferences = NULL
  /\ CallbackAns.calls = <<"exchangeCodeForSession">>
  /\ CallbackAns.redirect = "/login?error=auth_callback_error"

\* The user of the request has an id and an email
HasIdAndEmail ==
  /\ CallbackReq.user /= NULL
  /\ Given(Val(CallbackReq.user).id)
  /\ Given(Val(CallbackReq.user).email)

\* The preferences read shows a custom key, or a sponsored key that is active
HasCustomKey ==
  CallbackReq.preferences /= NULL /\ Given(Val(CallbackReq.preferences).firecrawl_custom_api_key)
HasActiveSponsoredKey ==
  /\ CallbackReq.preferences /= NULL
  /\ Given(Val(CallbackReq.preferences).firecrawl_api_key)
  /\ Val(CallbackReq.preferences).firecrawl_key_status = Some("active")

\* C28: the auth callback attempts to create a sponsored Firecrawl key
\* exactly when the exchange succeeded, the user has an id and an email, and
\* the user has neither a custom key nor a sponsored key with status active;
\* it attempts it at most once per callback.
KeyCreatedExactlyWhenNeeded ==
  CallbackDone =>
    /\ CallCount("createFirecrawlKeyForUser") <= 1
    /\ CallCount("createFirecrawlKeyForUser") = 1 <=>
         (ExchangeSucceeded /\ HasIdAndEmail /\ ~HasCustomKey /\ ~HasActiveSponsoredKey)

\* The callback has attempted the creation for a user whose sponsored key is
\* not active
KeyCreatedExactlyWhenNeededWitness ==
  /\ CallbackDone
  /\ ExchangeSucceeded /\ HasIdAndEmail
  /\ CallbackReq.preferences /= NULL
  /\ Val(CallbackReq.preferences).firecrawl_api_key = Some("fc-sponsored")
  /\ Val(CallbackReq.preferences).firecrawl_key_status = Some("invalid")
  /\ CallCount("createFirecrawlKeyForUser") = 1

\* C29: after a successful exchange the auth callback ends in a success
\* redirect, also when the creation of the Firecrawl key throws: to
\* /?pendingQuery=<query> when pendingQuery is given and not empty, whatever
\* redirectTo is, and else to redirectTo, or to / when that is not given.
SuccessAlwaysRedirects ==
  (CallbackDone /\ ExchangeSucceeded) =>
    CallbackAns.redirect =
      IF Given(CallbackReq.pendingQuery)
        THEN "/?pendingQuery=" \o EncodeURIComponent(Val(CallbackReq.pendingQuery))
      ELSE IF Given(CallbackReq.redirectTo) THEN Val(CallbackReq.redirectTo)
      ELSE "/"

\* The creation of the key has thrown, and the callback has redirected to the
\* pending query although redirectTo was given
SuccessAlwaysRedirectsWitness ==
  /\ CallbackDone
  /\ ExchangeSucceeded
  /\ CallbackReq.create_throws
  /\ CallCount("createFirecrawlKeyForUser") = 1
  /\ CallbackAns.logged /= << >>
  /\ CallbackReq.pendingQuery = Some("a b")
  /\ CallbackReq.redirectTo = Some("/scouts")
  /\ CallbackAns.redirect = "/?pendingQuery=a%20b"

\* The request the credits route has answered with the credits, and its answer
CreditsReported ==
  /\ ~IsNull(cr_out)
  /\ Val(cr_out).http = 200
  /\ "isCustomKey" \in DOMAIN Val(cr_out).body
CreditsPrefs == Val(Val(cr_in).preferences)
CreditsBody == Val(cr_out).body

\* The key sent to the Firecrawl API is the user's custom key, without the
\* white space around it
SentCustomKey ==
  /\ ~IsNull(CreditsPrefs.firecrawl_custom_api_key)
  /\ Val(cr_out).sent = Some(Trim(Val(CreditsPrefs.firecrawl_custom_api_key)))

\* C30: the credits route reports isCustomKey = true, and with it the status
\* active, exactly when the key it sent to Firecrawl is the user's custom
\* key; when it fell back to the sponsored key, isCustomKey is false and the
\* status is the stored status of the sponsored key.
CustomKeyReportedWhenSent ==
  CreditsReported =>
    /\ CreditsBody.isCustomKey <=> SentCustomKey
    /\ CreditsBody.isCustomKey => CreditsBody.status = Some("active")
    /\ ~SentCustomKey =>
         /\ ~CreditsBody.isCustomKey
         /\ CreditsBody.status = CreditsPrefs.firecrawl_key_status

\* C31: after a run of the setup script with pg_cron and pg_net enabled, both
\* environment variables set and cron.schedule succeeding, the job table
\* holds exactly one job named scout-cron-5min, on the schedule of every 5
\* minutes, and none named scout-cron-hourly, whatever jobs of those names
\* existed before, and every other job is as it was; a second such run in
\* the same environment leaves the job table as the first one left it.
SetupScriptSchedulesOnce ==
  [][ (notice' /= notice /\ LastNotice(notice') = "Cron job created") =>
        /\ \E j \in cron_job' : /\ JobsNamed(cron_job', "scout-cron-5min") = {j}
                                /\ j.schedule = "*/5 * * * *"
        /\ JobsNamed(cron_job', "scout-cron-hourly") = {}
        /\ \A name \in {"dispatch-scouts", "cleanup-scouts"} :
             JobsNamed(cron_job', name) = JobsNamed(cron_job, name)
        /\ ( /\ LastNotice(notice) = "Cron job created"
             /\ JobsNamed(cron_job', "scout-cron-5min") = JobsNamed(cron_job, "scout-cron-5min") )
           => cron_job' = cron_job
    ]_vars

\* The script has run twice with success: there is one scout-cron-5min job
\* and no hourly one, beside the dispatcher's job
SetupScriptSchedulesOnceWitness ==
  /\ notice = <<"Cron job created", "Cron job created">>
  /\ Cardinality(JobsNamed(cron_job, "scout-cron-5min")) = 1
  /\ JobsNamed(cron_job, "scout-cron-hourly") = {}
  /\ DispatchJob \in cron_job

====
